---------------------------- MODULE Spec2Model ----------------------------
(***************************************************************************)
(* The constraint solver of src/dynamics/solver/mod.rs as a state machine. *)
(*                                                                         *)
(* One physics step runs the systems of the PhysicsSchedule in order; the  *)
(* substepping loop runs the systems of the SubstepSchedule SubstepCount   *)
(* times.  Systems that loop over the contact constraints take one step    *)
(* per constraint (variable ci is the loop index), every other system is   *)
(* one step.                                                               *)
(*                                                                         *)
(* Numbers.  Scalars of the solver bodies are integers, vectors are pairs  *)
(* <<x, y>> and an angular velocity is one integer: a planar cut.          *)
(* The velocity components of the rigid bodies, which joint_damping        *)
(* divides, and the contact frequency are exact fractions <<n, d>>.        *)
(***************************************************************************)
EXTENDS Integers, Sequences, FiniteSets, TLC

\* ------------------------------------------------------------------ bounds
MaxSteps == 2
MaxSubsteps == 2
MaxRestitutionIterations == 2

\* ------------------------------------------------------- integer vectors
Abs(x) == IF x < 0 THEN -x ELSE x
Max(a, b) == IF a >= b THEN a ELSE b
Min(a, b) == IF a <= b THEN a ELSE b
Clamp(x, lo, hi) == Max(lo, Min(x, hi))
ZeroVec == <<0, 0>>
VAdd(a, b) == <<a[1] + b[1], a[2] + b[2]>>
VSub(a, b) == <<a[1] - b[1], a[2] - b[2]>>
VScale(k, a) == <<k * a[1], k * a[2]>>
Dot(a, b) == a[1] * b[1] + a[2] * b[2]
\* r x v for planar vectors (a scalar) and w x r for a scalar w (a vector)
Cross(r, v) == r[1] * v[2] - r[2] * v[1]
CrossSV(w, r) == <<-(w * r[2]), w * r[1]>>
Perp(n) == <<n[2], -n[1]>>

\* -------------------------------------------------------- exact fractions
RECURSIVE GCD(_, _)
GCD(a, b) == IF b = 0 THEN a ELSE GCD(b, a % b)
RNorm(n, d) ==
    LET s == IF d < 0 THEN -1 ELSE 1
        g == GCD(Abs(n), Abs(d))
    IN  <<(s * n) \div g, (s * d) \div g>>
R(n) == <<n, 1>>
RAdd(a, b) == RNorm(a[1] * b[2] + b[1] * a[2], a[2] * b[2])
RSub(a, b) == RNorm(a[1] * b[2] - b[1] * a[2], a[2] * b[2])
RMul(a, b) == RNorm(a[1] * b[1], a[2] * b[2])
RDiv(a, b) == RNorm(a[1] * b[2], a[2] * b[1])
RLeq(a, b) == a[1] * b[2] <= b[1] * a[2]
RMin(a, b) == IF RLeq(a, b) THEN a ELSE b
RVec(v) == <<R(v[1]), R(v[2])>>
RVAdd(a, b) == <<RAdd(a[1], b[1]), RAdd(a[2], b[2])>>
RVSub(a, b) == <<RSub(a[1], b[1]), RSub(a[2], b[2])>>
RVScale(k, a) == <<RMul(k, a[1]), RMul(k, a[2])>>
RVDiv(a, k) == <<RDiv(a[1], k), RDiv(a[2], k)>>
\* the integer a whole fraction stands for
ToInt(r) == r[1] \div r[2]
ToIntVec(v) == <<ToInt(v[1]), ToInt(v[2])>>
\* Scalar::EPSILON of the f32 build, 2^-23
EPSILON == <<1, 8388608>>


\* --------------------------------------------------------------- schedule
Sys(name, arg) == [sys |-> name, arg |-> arg]

\* the joint variants, in the order the substep systems are chained
JointVariantsSphericalLast ==
    <<"FixedJoint", "RevoluteJoint", "PrismaticJoint", "DistanceJoint", "SphericalJoint">>

JointVariants ==
    <<"FixedJoint", "RevoluteJoint", "SphericalJoint", "PrismaticJoint", "DistanceJoint">>

\* the order prepare_xpbd_joint is chained in
PrepareJointVariants ==
    <<"FixedJoint", "RevoluteJoint", "PrismaticJoint", "DistanceJoint", "SphericalJoint">>

RECURSIVE ForVariants(_, _)
ForVariants(name, variants) ==
    IF variants = <<>> THEN <<>>
    ELSE <<Sys(name, Head(variants))>> \o ForVariants(name, Tail(variants))

\* the system sets of one substep, in the order they run
SubstepSetOrder ==
    << "IntegrationSet::Velocity",
       "SubstepSolverSet::WarmStart",
       "SubstepSolverSet::SolveConstraints",
       "IntegrationSet::Position",
       "SubstepSolverSet::Relax",
       "SubstepSolverSet::SolveXpbdConstraints",
       "SubstepSolverSet::SolveUserConstraints",
       "SubstepSolverSet::XpbdVelocityProjection" >>

\* the systems of the integrator in the substep sets
IntegratorSystems(set) ==
    CASE set = "IntegrationSet::Velocity" -> <<Sys("integrate_velocities", "")>>
      [] set = "IntegrationSet::Position" -> <<Sys("integrate_positions", "")>>
      [] OTHER -> <<>>

\* the systems SolverPlugin::build adds to the substep sets, chained as written
SolverSubstepSystemsSwapped(set) ==
    CASE set = "SubstepSolverSet::WarmStart" -> <<Sys("warm_start", "")>>
      [] set = "SubstepSolverSet::SolveConstraints" -> <<Sys("solve_contacts", "false")>>
      [] set = "SubstepSolverSet::Relax" -> <<Sys("solve_contacts", "true")>>
      [] set = "SubstepSolverSet::SolveXpbdConstraints" ->
            <<Sys("pre_solve_snapshot", "")>> \o ForVariants("solve_xpbd_joint", JointVariants)
      [] set = "SubstepSolverSet::XpbdVelocityProjection" ->
            <<Sys("project_linear_velocity", ""), Sys("project_angular_velocity", "")>>
            \o ForVariants("joint_damping", JointVariants)
      [] OTHER -> <<>>

SolverSubstepSystems(set) ==
    CASE set = "SubstepSolverSet::WarmStart" -> <<Sys("warm_start", "")>>
      [] set = "SubstepSolverSet::SolveConstraints" -> <<Sys("solve_contacts", "true")>>
      [] set = "SubstepSolverSet::Relax" -> <<Sys("solve_contacts", "false")>>
      [] set = "SubstepSolverSet::SolveXpbdConstraints" ->
            <<Sys("pre_solve_snapshot", "")>> \o ForVariants("solve_xpbd_joint", JointVariants)
      [] set = "SubstepSolverSet::XpbdVelocityProjection" ->
            <<Sys("project_linear_velocity", ""), Sys("project_angular_velocity", "")>>
            \o ForVariants("joint_damping", JointVariants)
      [] OTHER -> <<>>

RECURSIVE FlattenSubstep(_)
FlattenSubstep(sets) ==
    IF sets = <<>> THEN <<>>
    ELSE IntegratorSystems(Head(sets)) \o SolverSubstepSystems(Head(sets))
         \o FlattenSubstep(Tail(sets))

\* the SubstepSchedule: every system of one substep, in order
SubstepSchedule == FlattenSubstep(SubstepSetOrder)

\* the steps of the PhysicsSchedule around the substepping loop, in order
StepSetOrder ==
    << "update_contact_softness",
       "PhysicsStepSet::NarrowPhase",
       "SolverSet::PrepareSolverBodies",
       "SolverSet::PrepareJoints",
       "SolverSet::Substep",
       "SolverSet::Restitution",
       "SolverSet::Finalize",
       "SolverSet::StoreContactImpulses" >>

\* the systems of the other plugins in the step sets
CollaboratorStepSystems(set) ==
    CASE set = "PhysicsStepSet::NarrowPhase" -> <<Sys("narrow_phase", "")>>
      [] set = "SolverSet::PrepareSolverBodies" -> <<Sys("prepare_solver_bodies", "")>>
      [] set = "SolverSet::Substep" -> <<Sys("substep_loop", "")>>
      [] set = "SolverSet::Finalize" -> <<Sys("finalize", "")>>
      [] OTHER -> <<>>

\* the systems SolverPlugin::build adds to the PhysicsSchedule
SolverStepSystemsStoreFirst(set) ==
    CASE set = "update_contact_softness" -> <<Sys("update_contact_softness", "")>>
      [] set = "SolverSet::PrepareJoints" ->
            ForVariants("prepare_xpbd_joint", PrepareJointVariants)
      [] set = "SolverSet::Restitution" -> <<Sys("store_contact_impulses", "")>>
      [] set = "SolverSet::StoreContactImpulses" -> <<Sys("solve_restitution", "")>>
      [] OTHER -> <<>>

SolverStepSystems(set) ==
    CASE set = "update_contact_softness" -> <<Sys("update_contact_softness", "")>>
      [] set = "SolverSet::PrepareJoints" ->
            ForVariants("prepare_xpbd_joint", PrepareJointVariants)
      [] set = "SolverSet::Restitution" -> <<Sys("solve_restitution", "")>>
      [] set = "SolverSet::StoreContactImpulses" -> <<Sys("store_contact_impulses", "")>>
      [] OTHER -> <<>>

RECURSIVE FlattenStep(_)
FlattenStep(sets) ==
    IF sets = <<>> THEN <<>>
    ELSE CollaboratorStepSystems(Head(sets)) \o SolverStepSystems(Head(sets))
         \o FlattenStep(Tail(sets))

\* the PhysicsSchedule: every system of one step, the loop as one entry
PhysicsSchedule == FlattenStep(StepSetOrder)


\* ------------------------------------------------------------------ state
VARIABLES
    step,             \* number of the physics step being run
    stepIdx,          \* position in PhysicsSchedule; Len + 1 once the step is over
    substep,          \* number of the substep being run, 0 outside the loop
    subIdx,           \* position in SubstepSchedule, 0 outside the loop
    ci,               \* index of the next constraint of the running contact system
    substepCount,     \* the SubstepCount resource
    cfg,              \* the SolverConfig resource
    physicsDt,        \* Time<Physics>: delta of the physics step
    substepDt,        \* Time<Substeps>: delta of one substep
    changed,          \* change detection: which resources changed since the last run
    coefficients,     \* the ContactSoftnessCoefficients resource
    lengthUnit,       \* the PhysicsLengthUnit resource: <<unit>>, or <<>> when absent
    bodies,           \* the rigid bodies' components
    solverBodies,     \* SolverBody and SolverBodyInertia of the bodies that have one
    dummy,            \* dummy_body1 and dummy_body2 of the running contact system
    constraints,      \* the ContactConstraints resource
    contactGraph,     \* the ContactGraph resource
    joints,           \* the joint entities
    ran,              \* the systems run so far in this substep
    stepRan,          \* the systems run so far in this step, a finished substep as one
    restitutionCalls, \* per constraint: apply_restitution calls of this step
    panicked,         \* a system panicked
    plugin,           \* the SolverPlugin: its length_unit, whether build has run,
                      \* and the PhysicsLengthUnit that build found
    passedCoefficient \* the coefficient of the latest ContactConstraint::warm_start
                      \* call, as <<value>>; <<>> before the first call

vars ==
    << step, stepIdx, substep, subIdx, ci, substepCount, cfg, physicsDt, substepDt,
       changed, coefficients, lengthUnit, plugin, bodies, solverBodies, dummy,
       constraints, contactGraph, joints, ran, stepRan, restitutionCalls, panicked,
       passedCoefficient >>

Bodies == {1, 2, 3}
Collider(b) == 10 + b

\* SolverBody::default()
DefaultSolverBody ==
    [ linear_velocity |-> ZeroVec, angular_velocity |-> 0,
      delta_position |-> ZeroVec, delta_rotation |-> 0 ]

\* SolverBodyInertia::default(): the zero inertia
DummyInertia == [inv_mass |-> 0, inv_inertia |-> 0]

\* SolverConfig::default(), with the fields a scenario sets
SolverConfigOf(iterations, warm) ==
    [ contact_damping_ratio |-> 10,
      contact_frequency_factor |-> <<3, 2>>,
      max_overlap_solve_speed |-> 4,
      warm_start_coefficient |-> warm,
      restitution_threshold |-> 1,
      restitution_iterations |-> iterations ]

\* SoftnessParameters::new(damping_ratio, hz).compute_coefficients(h), kept as
\* the three numbers that determine the coefficients
SoftnessCoefficients(damping_ratio, hz, h) ==
    [damping_ratio |-> damping_ratio, hz |-> hz, h |-> h]

\* ContactSoftnessCoefficients::default()
DefaultContactSoftness ==
    [ dynamic |-> SoftnessCoefficients(10, R(30), <<1, 60>>),
      non_dynamic |-> SoftnessCoefficients(10, R(60), <<1, 60>>) ]

RigidBodyOf(kind, x, v, w, dominance) ==
    [ rb |-> kind, position |-> x, rotation |-> 0,
      linear_velocity |-> RVec(v), angular_velocity |-> R(w),
      inv_mass |-> 1, inv_inertia |-> 1, dominance |-> dominance,
      pre_solve_delta_position |-> ZeroVec, pre_solve_delta_rotation |-> 0 ]

ManifoldPoint(a1, a2, penetration) ==
    [ anchor1 |-> a1, anchor2 |-> a2, penetration |-> penetration,
      normal_impulse |-> 0, tangent_impulse |-> 0 ]

\* the contact pairs the narrow phase found: body 2 rests on body 1 with two
\* contact points, body 3 touches body 2 from the side in two manifolds
InitialGraph(restitution1) ==
    (<<Collider(1), Collider(2)>> :>
        [ body1 |-> 1, body2 |-> 2,
          manifolds |-> <<
            [ normal |-> <<0, 1>>, friction |-> 1, restitution |-> restitution1,
              points |-> << ManifoldPoint(<<-1, 1>>, <<-1, -1>>, 6),
                            ManifoldPoint(<<1, 1>>, <<1, -1>>, 0) >> ] >> ])
    @@
    (<<Collider(2), Collider(3)>> :>
        [ body1 |-> 2, body2 |-> 3,
          manifolds |-> <<
            [ normal |-> <<1, 0>>, friction |-> 0, restitution |-> 1,
              points |-> << ManifoldPoint(<<1, 0>>, <<-1, 0>>, 0) >> ],
            [ normal |-> <<1, 0>>, friction |-> 1, restitution |-> 0,
              points |-> << ManifoldPoint(<<1, 1>>, <<-1, 1>>, 1) >> ] >> ])

JointOf(variant, b1, b2, rest, damping_linear, damping_angular) ==
    [ variant |-> variant, entities |-> <<b1, b2>>, rest |-> rest,
      damping_linear |-> damping_linear, damping_angular |-> damping_angular,
      lagrange |-> ZeroVec ]

InitialJoints ==
    << JointOf("DistanceJoint", 1, 2, <<0, 2>>, <<1, 2>>, R(1)),
       JointOf("FixedJoint", 2, 3, <<2, 0>>, R(2), <<1, 2>>) >>

Kinds == {"Static", "Kinematic", "Dynamic"}

InitialBodies(kind1, kind3, dom1, dom2) ==
    (1 :> RigidBodyOf(kind1, ZeroVec, IF kind1 = "Kinematic" THEN <<1, 0>> ELSE ZeroVec,
                      IF kind1 = "Kinematic" THEN 1 ELSE 0, dom1))
    @@ (2 :> RigidBodyOf("Dynamic", <<0, 2>>, <<1, -3>>, 0, dom2))
    @@ (3 :> RigidBodyOf(kind3, <<3, 2>>, <<-2, 0>>, 1, 0))

\* the resources and the contact graph at the start of the first step
InitResources(restitution1, iterations, warm, count, dt, h, factor) ==
    /\ step = 1
    /\ stepIdx = 1
    /\ substep = 0
    /\ subIdx = 0
    /\ ci = 1
    /\ substepCount = count
    /\ cfg = [SolverConfigOf(iterations, warm) EXCEPT !.contact_frequency_factor = factor]
    /\ physicsDt = dt
    /\ substepDt = h
    /\ changed = [solver_config |-> TRUE, physics_time |-> TRUE, substep_time |-> TRUE]
    /\ coefficients = DefaultContactSoftness
    /\ solverBodies = <<>>
    /\ dummy = <<DefaultSolverBody, DefaultSolverBody>>
    /\ constraints = <<>>
    /\ contactGraph = InitialGraph(restitution1)
    /\ ran = <<>>
    /\ stepRan = <<>>
    /\ restitutionCalls = <<>>
    /\ panicked = FALSE
    /\ passedCoefficient = <<>>

InitEntities(kind1, kind3, dom1, dom2, restitution1, iterations, warm, count, dt, h, factor) ==
    /\ InitResources(restitution1, iterations, warm, count, dt, h, factor)
    /\ bodies = InitialBodies(kind1, kind3, dom1, dom2)
    /\ joints = InitialJoints

\* SolverPlugin::default() has been built into an app without a PhysicsLengthUnit
DefaultLengthUnit == 1

InitWith(kind1, kind3, dom1, dom2, restitution1, iterations, warm, count, dt, h, factor) ==
    /\ InitEntities(kind1, kind3, dom1, dom2, restitution1, iterations, warm, count,
                    dt, h, factor)
    /\ lengthUnit = <<DefaultLengthUnit>>
    /\ plugin = [length_unit |-> DefaultLengthUnit, built |-> TRUE, found |-> <<>>]

Init ==
    \E kind1 \in Kinds, kind3 \in {"Dynamic", "Kinematic"}, dom1 \in {0, 1}, dom2 \in {0, 1},
       restitution1 \in {0, 1}, iterations \in 0..MaxRestitutionIterations,
       warm \in {0, 1}, count \in 1..MaxSubsteps :
        InitWith(kind1, kind3, dom1, dom2, restitution1, iterations, warm, count,
                 count, 1, <<3, 2>>)


\* ----------------------------------------------------------- control flow
NoSystem == Sys("none", "")

\* the system that runs next
CurrentSystem ==
    IF panicked \/ ~plugin.built THEN NoSystem
    ELSE IF subIdx > 0 THEN SubstepSchedule[subIdx]
    ELSE IF stepIdx \in 1..Len(PhysicsSchedule) THEN PhysicsSchedule[stepIdx]
    ELSE NoSystem

StepOver == stepIdx = Len(PhysicsSchedule) + 1

\* a system of the PhysicsSchedule has finished: go to the next one, and into the
\* first substep when that is the substepping loop
AdvanceStep(s) ==
    /\ stepRan' = Append(stepRan, s)
    /\ stepIdx' = stepIdx + 1
    /\ ci' = 1
    /\ IF stepIdx + 1 <= Len(PhysicsSchedule)
          /\ PhysicsSchedule[stepIdx + 1] = Sys("substep_loop", "")
       THEN substep' = 1 /\ subIdx' = 1
       ELSE substep' = 0 /\ subIdx' = 0
    /\ UNCHANGED ran

\* a system of the SubstepSchedule has finished: go to the next one, to the next
\* substep after the last one, and out of the loop after SubstepCount substeps
AdvanceSubstep(s) ==
    /\ ran' = IF subIdx = 1 THEN <<s>> ELSE Append(ran, s)
    /\ ci' = 1
    /\ IF subIdx < Len(SubstepSchedule)
       THEN subIdx' = subIdx + 1 /\ UNCHANGED <<substep, stepIdx, stepRan>>
       ELSE /\ stepRan' = Append(stepRan, Sys("substep", ""))
            /\ IF substep < substepCount
               THEN subIdx' = 1 /\ substep' = substep + 1 /\ UNCHANGED stepIdx
               ELSE subIdx' = 0 /\ substep' = 0 /\ stepIdx' = stepIdx + 1

\* the running contact system stays at the next constraint
NextConstraint ==
    /\ ci' = ci + 1
    /\ UNCHANGED <<stepIdx, substep, subIdx, ran, stepRan>>

\* what no system writes
UNCHANGED_env ==
    UNCHANGED <<step, substepCount, cfg, physicsDt, substepDt, lengthUnit, plugin>>

\* ------------------------------------------ contact constraint (contact.rs)
\* velocity of body2 at r2 relative to body1 at r1
RelativeVelocity(b1, b2, r1, r2) ==
    VSub(VAdd(b2.linear_velocity, CrossSV(b2.angular_velocity, r2)),
         VAdd(b1.linear_velocity, CrossSV(b1.angular_velocity, r1)))

\* impulse P on body2 at r2 and -P on body1 at r1, through the inverse inertias
ApplyImpulse(b1, b2, i1, i2, r1, r2, P) ==
    [ b1 |-> [b1 EXCEPT !.linear_velocity = VSub(@, VScale(i1.inv_mass, P)),
                        !.angular_velocity = @ - i1.inv_inertia * Cross(r1, P)],
      b2 |-> [b2 EXCEPT !.linear_velocity = VAdd(@, VScale(i2.inv_mass, P)),
                        !.angular_velocity = @ + i2.inv_inertia * Cross(r2, P)] ]

\* ContactConstraint::tangent_directions: in the plane, the normal's perpendicular
TangentDirections(c, v1, v2) == Perp(c.normal)

\* ContactConstraint::warm_start, point k onwards
RECURSIVE WarmStartPoints(_, _, _, _, _, _, _)
WarmStartPoints(st, k, i1, i2, normal, tangent, coefficient) ==
    IF k > Len(st.c.points) THEN st
    ELSE LET p == st.c.points[k]
             P == VScale(coefficient,
                         VAdd(VScale(p.normal_part.impulse, normal),
                              VScale(p.tangent_part.impulse, tangent)))
             out == ApplyImpulse(st.b1, st.b2, i1, i2, p.anchor1, p.anchor2, P)
         IN  WarmStartPoints([st EXCEPT !.b1 = out.b1, !.b2 = out.b2],
                             k + 1, i1, i2, normal, tangent, coefficient)

ConstraintWarmStart(c, b1, b2, i1, i2, normal, tangent, coefficient) ==
    WarmStartPoints([c |-> c, b1 |-> b1, b2 |-> b2], 1, i1, i2, normal, tangent, coefficient)

\* the accumulated normal impulse after the raw impulse lambda: one-sided
NormalImpulseUnclamped(accumulated, lambda) == accumulated + lambda

NormalImpulseClamped(accumulated, lambda) == Max(0, accumulated + lambda)

\* the accumulated tangent impulse after the raw impulse lambda: inside the
\* Coulomb cone of the accumulated normal impulse
TangentImpulseUnclamped(accumulated, lambda, friction, normal_impulse) ==
    accumulated + lambda

TangentImpulseClamped(accumulated, lambda, friction, normal_impulse) ==
    Clamp(accumulated + lambda, -(friction * normal_impulse), friction * normal_impulse)

\* ContactConstraint::solve for point k: the normal impulse, clamped to >= 0, then
\* the friction impulse, clamped to the Coulomb cone of the new normal impulse
SolvePoint(st, k, i1, i2, delta_secs, use_bias, max_overlap_solve_speed) ==
    LET c == st.c
        p == c.points[k]
        n == c.normal
        t == TangentDirections(c, st.b1.linear_velocity, st.b2.linear_velocity)
        vn == Dot(RelativeVelocity(st.b1, st.b2, p.anchor1, p.anchor2), n)
        separation ==
            p.separation + Dot(VSub(st.b2.delta_position, st.b1.delta_position), n)
        bias == IF use_bias
                THEN Min(separation + max_overlap_solve_speed * delta_secs, 0) \div delta_secs
                ELSE 0
        gamma == IF use_bias THEN c.gamma ELSE 0
        lambda == p.normal_part.effective_mass * (-(vn + bias))
                  - gamma * p.normal_part.impulse
        newN == NormalImpulseClamped(p.normal_part.impulse, lambda)
        afterN == ApplyImpulse(st.b1, st.b2, i1, i2, p.anchor1, p.anchor2,
                               VScale(newN - p.normal_part.impulse, n))
        vt == Dot(RelativeVelocity(afterN.b1, afterN.b2, p.anchor1, p.anchor2), t)
        lambdaT == -(p.tangent_part.effective_mass * vt)
        newT == IF p.tangent_part.present
                THEN TangentImpulseClamped(p.tangent_part.impulse, lambdaT, c.friction, newN)
                ELSE p.tangent_part.impulse
        afterT == ApplyImpulse(afterN.b1, afterN.b2, i1, i2, p.anchor1, p.anchor2,
                               VScale(newT - p.tangent_part.impulse, t))
    IN  [ c |-> [c EXCEPT !.points[k].normal_part.impulse = newN,
                          !.points[k].tangent_part.impulse = newT],
          b1 |-> afterT.b1, b2 |-> afterT.b2 ]

RECURSIVE SolvePoints(_, _, _, _, _, _, _)
SolvePoints(st, k, i1, i2, delta_secs, use_bias, max_overlap_solve_speed) ==
    IF k > Len(st.c.points) THEN st
    ELSE SolvePoints(SolvePoint(st, k, i1, i2, delta_secs, use_bias, max_overlap_solve_speed),
                     k + 1, i1, i2, delta_secs, use_bias, max_overlap_solve_speed)

ConstraintSolve(c, b1, b2, i1, i2, delta_secs, use_bias, max_overlap_solve_speed) ==
    SolvePoints([c |-> c, b1 |-> b1, b2 |-> b2], 1, i1, i2,
                delta_secs, use_bias, max_overlap_solve_speed)

\* ContactConstraint::apply_restitution, point k onwards: a point that closed in
\* faster than the threshold gets the impulse -restitution * normal_speed * m_n,
\* the accumulated normal impulse staying >= 0
RECURSIVE RestitutionPoints(_, _, _, _, _)
RestitutionPoints(st, k, i1, i2, threshold) ==
    IF k > Len(st.c.points) THEN st
    ELSE LET c == st.c
             p == c.points[k]
             lambda == -(c.restitution * p.normal_speed * p.normal_part.effective_mass)
             newN == NormalImpulseClamped(p.normal_part.impulse, lambda)
             out == ApplyImpulse(st.b1, st.b2, i1, i2, p.anchor1, p.anchor2,
                                 VScale(newN - p.normal_part.impulse, c.normal))
         IN  IF p.normal_speed < -threshold
             THEN RestitutionPoints(
                      [st EXCEPT !.c.points[k].normal_part.impulse = newN,
                                 !.b1 = out.b1, !.b2 = out.b2],
                      k + 1, i1, i2, threshold)
             ELSE RestitutionPoints(st, k + 1, i1, i2, threshold)

ConstraintApplyRestitution(st, i1, i2, threshold) ==
    RestitutionPoints(st, 1, i1, i2, threshold)


\* ------------------------------------------------- the systems of mod.rs
\* update_contact_softness: the frequency handed to SoftnessParameters::new
ContactFrequencyUnclamped(config, dt, h) ==
    RMul(config.contact_frequency_factor, RDiv(R(1), RMul(R(dt), R(2))))

ContactFrequency(config, dt, h) ==
    LET max_hz == RDiv(R(1), RMul(R(dt), R(2)))
    IN  RMul(config.contact_frequency_factor, RMin(max_hz, RDiv(<<1, 4>>, R(h))))

\* update_contact_softness: the coefficients it writes
ContactSoftness(config, dt, h) ==
    LET hz == ContactFrequency(config, dt, h)
    IN  [ dynamic |-> SoftnessCoefficients(config.contact_damping_ratio, hz, R(h)),
          non_dynamic |->
              SoftnessCoefficients(config.contact_damping_ratio, RMul(R(2), hz), R(h)) ]

\* update_contact_softness: the condition under which it recomputes
SoftnessIsChangedNoSubstepTime(ch) == ch.solver_config \/ ch.physics_time

SoftnessIsChanged(ch) == ch.solver_config \/ ch.physics_time \/ ch.substep_time

update_contact_softness ==
    /\ CurrentSystem = Sys("update_contact_softness", "")
    /\ coefficients' = IF SoftnessIsChanged(changed)
                       THEN ContactSoftness(cfg, physicsDt, substepDt)
                       ELSE coefficients
    /\ changed' = [solver_config |-> FALSE, physics_time |-> FALSE, substep_time |-> FALSE]
    /\ AdvanceStep(Sys("update_contact_softness",
                       IF SoftnessIsChanged(changed) THEN "recomputed" ELSE "kept"))
    /\ UNCHANGED_env
    /\ UNCHANGED <<bodies, solverBodies, dummy, constraints, contactGraph, joints,
                   restitutionCalls, panicked, passedCoefficient>>

\* Res<PhysicsLengthUnit>: the value of the resource, which is present
LengthUnit == lengthUnit[1]

\* the dummy bodies of a contact system: fresh when the system starts its loop
LoopDummy == IF ci = 1 THEN <<DefaultSolverBody, DefaultSolverBody>> ELSE dummy

HasSolverBody(b) == b \in DOMAIN solverBodies

\* a contact system's choice of inertias: the zero dummy inertia for the body of
\* higher dominance
DominanceInertiaSwapped(c, inertia1, inertia2) ==
    [ inertia1 |-> IF c.relative_dominance < 0 THEN DummyInertia ELSE inertia1,
      inertia2 |-> IF c.relative_dominance > 0 THEN DummyInertia ELSE inertia2 ]

DominanceInertia(c, inertia1, inertia2) ==
    [ inertia1 |-> IF c.relative_dominance > 0 THEN DummyInertia ELSE inertia1,
      inertia2 |-> IF c.relative_dominance < 0 THEN DummyInertia ELSE inertia2 ]

\* a contact system's bodies and inertias for constraint c: the solver bodies of
\* the two entities, the dummies for an entity without one
ContactBodiesUnitInertia(c, d) ==
    LET unit == [inv_mass |-> 1, inv_inertia |-> 1]
        found1 == HasSolverBody(c.body1)
        found2 == HasSolverBody(c.body2)
    IN  [ body1 |-> IF found1 THEN solverBodies[c.body1].body ELSE d[1],
          body2 |-> IF found2 THEN solverBodies[c.body2].body ELSE d[2],
          inertia1 |-> IF found1 THEN solverBodies[c.body1].inertia ELSE unit,
          inertia2 |-> IF found2 THEN solverBodies[c.body2].inertia ELSE unit ]

ContactBodies(c, d) ==
    LET found1 == HasSolverBody(c.body1)
        found2 == HasSolverBody(c.body2)
        i == DominanceInertia(c,
                 IF found1 THEN solverBodies[c.body1].inertia ELSE DummyInertia,
                 IF found2 THEN solverBodies[c.body2].inertia ELSE DummyInertia)
    IN  [ body1 |-> IF found1 THEN solverBodies[c.body1].body ELSE d[1],
          body2 |-> IF found2 THEN solverBodies[c.body2].body ELSE d[2],
          inertia1 |-> i.inertia1,
          inertia2 |-> i.inertia2 ]

\* the writes through body1 and body2 land in the solver body, or in the dummy
BodiesAfter(c, b1, b2) ==
    [ b \in DOMAIN solverBodies |->
        IF b = c.body2 THEN [solverBodies[b] EXCEPT !.body = b2]
        ELSE IF b = c.body1 THEN [solverBodies[b] EXCEPT !.body = b1]
        ELSE solverBodies[b] ]

DummyAfter(c, d, b1, b2) ==
    << IF HasSolverBody(c.body1) THEN d[1] ELSE b1,
       IF HasSolverBody(c.body2) THEN d[2] ELSE b2 >>

\* one pass of a contact system's loop: `out` is what the constraint's method left
ContactLoopStep(out) ==
    /\ constraints' = [constraints EXCEPT ![ci] = out.c]
    /\ solverBodies' = BodiesAfter(constraints[ci], out.b1, out.b2)
    /\ dummy' = DummyAfter(constraints[ci], LoopDummy, out.b1, out.b2)

\* warm_start: the coefficient it hands to ContactConstraint::warm_start
WarmStartCoefficientClamped(solver_config) ==
    Clamp(solver_config.warm_start_coefficient, 0, 1)

WarmStartCoefficient(solver_config) == solver_config.warm_start_coefficient

\* warm_start, for the constraint at ci
WarmStartConstraint(c, d) ==
    LET r == ContactBodies(c, d)
        tangent_directions ==
            TangentDirections(c, r.body1.linear_velocity, r.body2.linear_velocity)
    IN  ConstraintWarmStart(c, r.body1, r.body2, r.inertia1, r.inertia2, c.normal,
                            tangent_directions, WarmStartCoefficient(cfg))

warm_start ==
    /\ CurrentSystem = Sys("warm_start", "")
    /\ IF ci <= Len(constraints)
       THEN /\ ContactLoopStep(WarmStartConstraint(constraints[ci], LoopDummy))
            /\ passedCoefficient' = <<WarmStartCoefficient(cfg)>>
       ELSE UNCHANGED <<constraints, solverBodies, dummy, passedCoefficient>>
    /\ IF ci >= Len(constraints) THEN AdvanceSubstep(CurrentSystem) ELSE NextConstraint
    /\ UNCHANGED_env
    /\ UNCHANGED <<changed, coefficients, bodies, contactGraph, joints,
                   restitutionCalls, panicked>>

\* solve_contacts::<USE_BIAS>, for the constraint at ci
SolveConstraint(c, d, use_bias) ==
    LET r == ContactBodies(c, d)
        max_overlap_solve_speed == cfg.max_overlap_solve_speed * LengthUnit
    IN  ConstraintSolve(c, r.body1, r.body2, r.inertia1, r.inertia2, substepDt,
                        use_bias, max_overlap_solve_speed)

solve_contacts(USE_BIAS) ==
    /\ CurrentSystem = Sys("solve_contacts", IF USE_BIAS THEN "true" ELSE "false")
    /\ IF ci <= Len(constraints)
       THEN ContactLoopStep(SolveConstraint(constraints[ci], LoopDummy, USE_BIAS))
       ELSE UNCHANGED <<constraints, solverBodies, dummy>>
    /\ IF ci >= Len(constraints) THEN AdvanceSubstep(CurrentSystem) ELSE NextConstraint
    /\ UNCHANGED_env
    /\ UNCHANGED <<changed, coefficients, bodies, contactGraph, joints,
                   restitutionCalls, panicked, passedCoefficient>>

\* solve_restitution: the number of apply_restitution calls for a constraint
RestitutionIterationsAnyPoints(c) ==
    IF Len(c.points) >= 1 THEN cfg.restitution_iterations ELSE 1

RestitutionIterations(c) ==
    IF Len(c.points) > 1 THEN cfg.restitution_iterations ELSE 1

\* solve_restitution: restitution 0 skips the constraint
RestitutionSkippedNonPositive(c) == c.restitution <= 0

RestitutionSkipped(c) == c.restitution = 0

\* for _ in 0..n { constraint.apply_restitution(..) }, the calls counted
RECURSIVE ApplyRestitutionTimes(_, _, _, _, _)
ApplyRestitutionTimes(st, n, i1, i2, threshold) ==
    IF n <= 0 THEN st
    ELSE LET out == ConstraintApplyRestitution(st, i1, i2, threshold)
         IN  ApplyRestitutionTimes([out EXCEPT !.calls = @ + 1], n - 1, i1, i2, threshold)

\* solve_restitution, for the constraint at ci
RestituteConstraint(c, d) ==
    LET r == ContactBodies(c, d)
        threshold == cfg.restitution_threshold * LengthUnit
        st == [c |-> c, b1 |-> r.body1, b2 |-> r.body2, calls |-> 0]
    IN  ApplyRestitutionTimes(st, RestitutionIterations(c), r.inertia1, r.inertia2, threshold)

solve_restitution ==
    /\ CurrentSystem = Sys("solve_restitution", "")
    /\ IF ci <= Len(constraints)
       THEN IF RestitutionSkipped(constraints[ci])
            THEN /\ restitutionCalls' = Append(restitutionCalls, 0)
                 /\ dummy' = LoopDummy
                 /\ UNCHANGED <<constraints, solverBodies>>
            ELSE LET out == RestituteConstraint(constraints[ci], LoopDummy)
                 IN  /\ ContactLoopStep(out)
                     /\ restitutionCalls' = Append(restitutionCalls, out.calls)
       ELSE UNCHANGED <<constraints, solverBodies, dummy, restitutionCalls>>
    /\ IF ci >= Len(constraints)
       THEN AdvanceStep(CurrentSystem)
       ELSE NextConstraint
    /\ UNCHANGED_env
    /\ UNCHANGED <<changed, coefficients, bodies, contactGraph, joints, panicked, passedCoefficient>>


\* store_contact_impulses: what one contact of the manifold receives
ContactStoredNormalOnly(contact, constraint_point) ==
    [contact EXCEPT !.normal_impulse = constraint_point.normal_part.impulse]

ContactStored(contact, constraint_point) ==
    [contact EXCEPT
        !.normal_impulse = constraint_point.normal_part.impulse,
        !.tangent_impulse = IF constraint_point.tangent_part.present
                            THEN constraint_point.tangent_part.impulse
                            ELSE 0]

\* manifold.points.iter_mut().zip(constraint.points.iter())
ZipStored(manifold_points, constraint_points) ==
    [ i \in 1..Len(manifold_points) |->
        IF i <= Len(constraint_points)
        THEN ContactStored(manifold_points[i], constraint_points[i])
        ELSE manifold_points[i] ]

\* store_contact_impulses: a constraint that does not resolve in the graph stops
\* the system with a panic
StoreGivesUp(graph) == [graph |-> graph, panicked |-> FALSE]

StorePanics(graph) == [graph |-> graph, panicked |-> TRUE]

\* store_contact_impulses, constraint k onwards: a pair that is not in the graph
\* and a manifold index out of range panic
RECURSIVE StoreImpulses(_, _)
StoreImpulses(graph, k) ==
    IF k > Len(constraints) THEN [graph |-> graph, panicked |-> FALSE]
    ELSE LET c == constraints[k]
             key == <<c.collider1, c.collider2>>
         IN  IF key \notin DOMAIN graph
             THEN StorePanics(graph)
             ELSE IF c.manifold_index \notin 1..Len(graph[key].manifolds)
             THEN StorePanics(graph)
             ELSE StoreImpulses(
                    [graph EXCEPT ![key].manifolds[c.manifold_index].points =
                                      ZipStored(@, c.points)],
                    k + 1)

store_contact_impulses ==
    /\ CurrentSystem = Sys("store_contact_impulses", "")
    /\ LET out == StoreImpulses(contactGraph, 1)
       IN  /\ contactGraph' = out.graph
           /\ panicked' = out.panicked
           /\ IF out.panicked
              THEN UNCHANGED <<stepIdx, substep, subIdx, ci, ran, stepRan>>
              ELSE AdvanceStep(CurrentSystem)
    /\ UNCHANGED_env
    /\ UNCHANGED <<changed, coefficients, bodies, solverBodies, dummy, constraints,
                   joints, restitutionCalls, passedCoefficient>>

\* the closure chained before the joint solve: the pre-solve snapshot
pre_solve_snapshot ==
    /\ CurrentSystem = Sys("pre_solve_snapshot", "")
    /\ bodies' = [ b \in DOMAIN bodies |->
                     IF HasSolverBody(b)
                     THEN [bodies[b] EXCEPT
                             !.pre_solve_delta_position = solverBodies[b].body.delta_position,
                             !.pre_solve_delta_rotation = solverBodies[b].body.delta_rotation]
                     ELSE bodies[b] ]
    /\ AdvanceSubstep(CurrentSystem)
    /\ UNCHANGED_env
    /\ UNCHANGED <<changed, coefficients, solverBodies, dummy, constraints, contactGraph,
                   joints, restitutionCalls, panicked, passedCoefficient>>

IsDynamic(b) == b.rb = "Dynamic"

\* joint_damping: the bodies whose velocities it writes: rb.is_dynamic()
DampedAlways(b) == TRUE

Damped(b) == IsDynamic(b)

\* joint_damping: the share of the relative velocity taken off:
\* (damping * delta_secs).min(1.0)
DampingFactorUnclamped(damping, delta_secs) == RMul(damping, R(delta_secs))

DampingFactor(damping, delta_secs) == RMin(RMul(damping, R(delta_secs)), R(1))

\* joint_damping: a body takes the linear correction unless it has the higher
\* dominance of the two
PushedWhatever(dominance, other) == TRUE

Pushed(dominance, other) == dominance <= other

\* joint_damping, for one joint whose two bodies the query returned
JointDamped(bs, joint, delta_secs) ==
    LET e1 == joint.entities[1]
        e2 == joint.entities[2]
        b1 == bs[e1]
        b2 == bs[e2]
        delta_omega ==
            RMul(RSub(b2.angular_velocity, b1.angular_velocity),
                 DampingFactor(joint.damping_angular, delta_secs))
        ang1 == IF Damped(b1) THEN RAdd(b1.angular_velocity, delta_omega)
                ELSE b1.angular_velocity
        ang2 == IF Damped(b2) THEN RSub(b2.angular_velocity, delta_omega)
                ELSE b2.angular_velocity
        delta_v ==
            RVScale(DampingFactor(joint.damping_linear, delta_secs),
                    RVSub(b2.linear_velocity, b1.linear_velocity))
        w1 == IF IsDynamic(b1) THEN R(b1.inv_mass) ELSE R(0)
        w2 == IF IsDynamic(b2) THEN R(b2.inv_mass) ELSE R(0)
        skip == RLeq(RAdd(w1, w2), EPSILON)
        p == RVDiv(delta_v, RAdd(w1, w2))
        lin1 == IF ~skip /\ Damped(b1) /\ (~IsDynamic(b2) \/ Pushed(b1.dominance, b2.dominance))
                THEN RVAdd(b1.linear_velocity, RVScale(R(b1.inv_mass), p))
                ELSE b1.linear_velocity
        lin2 == IF ~skip /\ Damped(b2) /\ (~IsDynamic(b1) \/ Pushed(b2.dominance, b1.dominance))
                THEN RVSub(b2.linear_velocity, RVScale(R(b2.inv_mass), p))
                ELSE b2.linear_velocity
    IN  [ b \in DOMAIN bs |->
            IF b = e1 THEN [b1 EXCEPT !.angular_velocity = ang1, !.linear_velocity = lin1]
            ELSE IF b = e2 THEN [b2 EXCEPT !.angular_velocity = ang2, !.linear_velocity = lin2]
            ELSE bs[b] ]

\* bodies.get_many_mut(joint.entities()): both entities are bodies, and distinct
QueryHasBoth(bs, joint) ==
    /\ joint.entities[1] \in DOMAIN bs
    /\ joint.entities[2] \in DOMAIN bs
    /\ joint.entities[1] # joint.entities[2]

\* joint_damping: w1 + w2 <= Scalar::EPSILON for the joint
NearZeroMass(bs, joint) ==
    LET b1 == bs[joint.entities[1]]
        b2 == bs[joint.entities[2]]
    IN  RLeq(RAdd(IF IsDynamic(b1) THEN R(b1.inv_mass) ELSE R(0),
                  IF IsDynamic(b2) THEN R(b2.inv_mass) ELSE R(0)), EPSILON)

\* joint_damping::<T> leaving the loop at the first joint of near-zero mass
RECURSIVE JointDampingUntilSkipped(_, _, _, _)
JointDampingUntilSkipped(bs, k, T, delta_secs) ==
    IF k > Len(joints) THEN bs
    ELSE IF joints[k].variant = T /\ QueryHasBoth(bs, joints[k])
    THEN IF NearZeroMass(bs, joints[k]) THEN JointDamped(bs, joints[k], delta_secs)
         ELSE JointDampingUntilSkipped(JointDamped(bs, joints[k], delta_secs), k + 1, T,
                                       delta_secs)
    ELSE JointDampingUntilSkipped(bs, k + 1, T, delta_secs)

\* joint_damping::<T>, joint k onwards
RECURSIVE JointDampingFrom(_, _, _, _)
JointDampingFrom(bs, k, T, delta_secs) ==
    IF k > Len(joints) THEN bs
    ELSE IF joints[k].variant = T /\ QueryHasBoth(bs, joints[k])
    THEN JointDampingFrom(JointDamped(bs, joints[k], delta_secs), k + 1, T, delta_secs)
    ELSE JointDampingFrom(bs, k + 1, T, delta_secs)

joint_damping(T) ==
    /\ CurrentSystem = Sys("joint_damping", T)
    /\ bodies' = JointDampingFrom(bodies, 1, T, substepDt)
    /\ AdvanceSubstep(CurrentSystem)
    /\ UNCHANGED_env
    /\ UNCHANGED <<changed, coefficients, solverBodies, dummy, constraints, contactGraph,
                   joints, restitutionCalls, panicked, passedCoefficient>>


\* ------------------------------------------- the systems of the other plugins
\* the contact pairs, in the order the narrow phase walks them
PairOrder == << <<Collider(1), Collider(2)>>, <<Collider(2), Collider(3)>> >>

\* the acceleration integrate_velocities applies to dynamic bodies
Gravity == <<0, -1>>

\* a constraint point prepared from a manifold point: the persisted impulses are
\* the warm-start impulses, normal_speed is the relative normal speed before the solve
ConstraintPointOf(pair, m, mp) ==
    LET v1 == ToIntVec(bodies[pair.body1].linear_velocity)
        v2 == ToIntVec(bodies[pair.body2].linear_velocity)
        w1 == ToInt(bodies[pair.body1].angular_velocity)
        w2 == ToInt(bodies[pair.body2].angular_velocity)
        rel == VSub(VAdd(v2, CrossSV(w2, mp.anchor2)), VAdd(v1, CrossSV(w1, mp.anchor1)))
    IN  [ anchor1 |-> mp.anchor1, anchor2 |-> mp.anchor2,
          separation |-> -mp.penetration,
          normal_speed |-> Dot(rel, m.normal),
          normal_part |-> [impulse |-> mp.normal_impulse, effective_mass |-> 1],
          tangent_part |-> [ present |-> m.friction > 0,
                             impulse |-> IF m.friction > 0 THEN mp.tangent_impulse ELSE 0,
                             effective_mass |-> 1 ] ]

\* the constraint prepared for manifold i of a pair
ConstraintOf(key, i) ==
    LET pair == contactGraph[key]
        m == pair.manifolds[i]
    IN  [ body1 |-> pair.body1, body2 |-> pair.body2,
          collider1 |-> key[1], collider2 |-> key[2],
          manifold_index |-> i,
          relative_dominance |-> bodies[pair.body1].dominance - bodies[pair.body2].dominance,
          normal |-> m.normal, friction |-> m.friction, restitution |-> m.restitution,
          gamma |-> IF IsDynamic(bodies[pair.body1]) /\ IsDynamic(bodies[pair.body2])
                    THEN 1 ELSE 0,
          points |-> [k \in 1..Len(m.points) |-> ConstraintPointOf(pair, m, m.points[k])] ]

RECURSIVE ConstraintsOfPair(_, _)
ConstraintsOfPair(key, i) ==
    IF i > Len(contactGraph[key].manifolds) THEN <<>>
    ELSE <<ConstraintOf(key, i)>> \o ConstraintsOfPair(key, i + 1)

RECURSIVE GenerateConstraints(_)
GenerateConstraints(keys) ==
    IF keys = <<>> THEN <<>>
    ELSE (IF Head(keys) \in DOMAIN contactGraph THEN ConstraintsOfPair(Head(keys), 1) ELSE <<>>)
         \o GenerateConstraints(Tail(keys))

\* the narrow phase: one contact constraint per manifold of the contact graph
narrow_phase ==
    /\ CurrentSystem = Sys("narrow_phase", "")
    /\ constraints' = GenerateConstraints(PairOrder)
    /\ AdvanceStep(CurrentSystem)
    /\ UNCHANGED_env
    /\ UNCHANGED <<changed, coefficients, bodies, solverBodies, dummy, contactGraph,
                   joints, restitutionCalls, panicked, passedCoefficient>>

\* the solver body of a dynamic or kinematic body: zero deltas, copied velocities,
\* and the inverse mass and inertia, zero for a body that is not dynamic
SolverBodyOf(b) ==
    [ body |-> [ linear_velocity |-> ToIntVec(b.linear_velocity),
                 angular_velocity |-> ToInt(b.angular_velocity),
                 delta_position |-> ZeroVec, delta_rotation |-> 0 ],
      inertia |-> IF IsDynamic(b)
                  THEN [inv_mass |-> b.inv_mass, inv_inertia |-> b.inv_inertia]
                  ELSE DummyInertia ]

prepare_solver_bodies ==
    /\ CurrentSystem = Sys("prepare_solver_bodies", "")
    /\ solverBodies' = [ b \in {x \in DOMAIN bodies : bodies[x].rb # "Static"} |->
                           SolverBodyOf(bodies[b]) ]
    /\ AdvanceStep(CurrentSystem)
    /\ UNCHANGED_env
    /\ UNCHANGED <<changed, coefficients, bodies, dummy, constraints, contactGraph,
                   joints, restitutionCalls, panicked, passedCoefficient>>

\* prepare_xpbd_joint::<T>: the Lagrange multipliers start the step at zero
prepare_xpbd_joint(T) ==
    /\ CurrentSystem = Sys("prepare_xpbd_joint", T)
    /\ joints' = [ k \in 1..Len(joints) |->
                     IF joints[k].variant = T THEN [joints[k] EXCEPT !.lagrange = ZeroVec]
                     ELSE joints[k] ]
    /\ AdvanceStep(CurrentSystem)
    /\ UNCHANGED_env
    /\ UNCHANGED <<changed, coefficients, bodies, solverBodies, dummy, constraints,
                   contactGraph, restitutionCalls, panicked, passedCoefficient>>

integrate_velocities ==
    /\ CurrentSystem = Sys("integrate_velocities", "")
    /\ solverBodies' = [ b \in DOMAIN solverBodies |->
                           IF IsDynamic(bodies[b])
                           THEN [solverBodies[b] EXCEPT !.body.linear_velocity =
                                    VAdd(@, VScale(substepDt, Gravity))]
                           ELSE solverBodies[b] ]
    /\ AdvanceSubstep(CurrentSystem)
    /\ UNCHANGED_env
    /\ UNCHANGED <<changed, coefficients, bodies, dummy, constraints, contactGraph,
                   joints, restitutionCalls, panicked, passedCoefficient>>

integrate_positions ==
    /\ CurrentSystem = Sys("integrate_positions", "")
    /\ solverBodies' = [ b \in DOMAIN solverBodies |->
                           [solverBodies[b] EXCEPT
                              !.body.delta_position =
                                  VAdd(@, VScale(substepDt, solverBodies[b].body.linear_velocity)),
                              !.body.delta_rotation =
                                  @ + substepDt * solverBodies[b].body.angular_velocity] ]
    /\ AdvanceSubstep(CurrentSystem)
    /\ UNCHANGED_env
    /\ UNCHANGED <<changed, coefficients, bodies, dummy, constraints, contactGraph,
                   joints, restitutionCalls, panicked, passedCoefficient>>


\* solve_xpbd_joint for one joint: the position error between the two anchors is
\* corrected through the inverse masses, zero for a body that is not dynamic,
\* with the sign flipped for body2
XpbdSolved(st, k) ==
    LET joint == st.joints[k]
        e1 == joint.entities[1]
        e2 == joint.entities[2]
        has1 == e1 \in DOMAIN st.sb
        has2 == e2 \in DOMAIN st.sb
        dp1 == IF has1 THEN st.sb[e1].body.delta_position ELSE ZeroVec
        dp2 == IF has2 THEN st.sb[e2].body.delta_position ELSE ZeroVec
        w1 == IF has1 THEN st.sb[e1].inertia.inv_mass ELSE 0
        w2 == IF has2 THEN st.sb[e2].inertia.inv_mass ELSE 0
        C == VSub(VSub(VAdd(bodies[e2].position, dp2), VAdd(bodies[e1].position, dp1)),
                  joint.rest)
        delta_lagrange ==
            IF w1 + w2 = 0 THEN ZeroVec
            ELSE <<(-C[1]) \div (w1 + w2), (-C[2]) \div (w1 + w2)>>
    IN  [ sb |-> [ b \in DOMAIN st.sb |->
                     IF b = e1
                     THEN [st.sb[b] EXCEPT !.body.delta_position =
                              VSub(@, VScale(w1, delta_lagrange))]
                     ELSE IF b = e2
                     THEN [st.sb[b] EXCEPT !.body.delta_position =
                              VAdd(@, VScale(w2, delta_lagrange))]
                     ELSE st.sb[b] ],
          joints |-> [st.joints EXCEPT ![k].lagrange = VAdd(@, delta_lagrange)] ]

RECURSIVE XpbdSolveFrom(_, _, _)
XpbdSolveFrom(st, k, T) ==
    IF k > Len(st.joints) THEN st
    ELSE IF st.joints[k].variant = T THEN XpbdSolveFrom(XpbdSolved(st, k), k + 1, T)
    ELSE XpbdSolveFrom(st, k + 1, T)

solve_xpbd_joint(T) ==
    /\ CurrentSystem = Sys("solve_xpbd_joint", T)
    /\ LET out == XpbdSolveFrom([sb |-> solverBodies, joints |-> joints], 1, T)
       IN  solverBodies' = out.sb /\ joints' = out.joints
    /\ AdvanceSubstep(CurrentSystem)
    /\ UNCHANGED_env
    /\ UNCHANGED <<changed, coefficients, bodies, dummy, constraints, contactGraph,
                   restitutionCalls, panicked, passedCoefficient>>

\* the velocity the XPBD solve added: the change in position since the pre-solve
\* snapshot, over the substep
project_linear_velocity ==
    /\ CurrentSystem = Sys("project_linear_velocity", "")
    /\ solverBodies' =
         [ b \in DOMAIN solverBodies |->
             LET d == VSub(solverBodies[b].body.delta_position,
                           bodies[b].pre_solve_delta_position)
             IN  [solverBodies[b] EXCEPT !.body.linear_velocity =
                     VAdd(@, <<d[1] \div substepDt, d[2] \div substepDt>>)] ]
    /\ AdvanceSubstep(CurrentSystem)
    /\ UNCHANGED_env
    /\ UNCHANGED <<changed, coefficients, bodies, dummy, constraints, contactGraph,
                   joints, restitutionCalls, panicked, passedCoefficient>>

project_angular_velocity ==
    /\ CurrentSystem = Sys("project_angular_velocity", "")
    /\ solverBodies' =
         [ b \in DOMAIN solverBodies |->
             [solverBodies[b] EXCEPT !.body.angular_velocity =
                 @ + (solverBodies[b].body.delta_rotation
                      - bodies[b].pre_solve_delta_rotation) \div substepDt] ]
    /\ AdvanceSubstep(CurrentSystem)
    /\ UNCHANGED_env
    /\ UNCHANGED <<changed, coefficients, bodies, dummy, constraints, contactGraph,
                   joints, restitutionCalls, panicked, passedCoefficient>>

\* the write-back: the deltas go into the pose, the velocities into the components
finalize ==
    /\ CurrentSystem = Sys("finalize", "")
    /\ bodies' = [ b \in DOMAIN bodies |->
                     IF HasSolverBody(b)
                     THEN [bodies[b] EXCEPT
                             !.position = VAdd(@, solverBodies[b].body.delta_position),
                             !.rotation = @ + solverBodies[b].body.delta_rotation,
                             !.linear_velocity = RVec(solverBodies[b].body.linear_velocity),
                             !.angular_velocity = R(solverBodies[b].body.angular_velocity)]
                     ELSE bodies[b] ]
    /\ AdvanceStep(CurrentSystem)
    /\ UNCHANGED_env
    /\ UNCHANGED <<changed, coefficients, solverBodies, dummy, constraints, contactGraph,
                   joints, restitutionCalls, panicked, passedCoefficient>>

\* the PhysicsSchedule runs again
BeginStep ==
    /\ StepOver
    /\ ~panicked
    /\ step < MaxSteps
    /\ step' = step + 1
    /\ stepIdx' = 1
    /\ ci' = 1
    /\ ran' = <<>>
    /\ stepRan' = <<>>
    /\ restitutionCalls' = <<>>
    /\ UNCHANGED <<substep, subIdx, substepCount, cfg, physicsDt, substepDt, changed,
                   coefficients, lengthUnit, plugin, bodies, solverBodies, dummy,
                   constraints,
                   contactGraph, joints, panicked, passedCoefficient>>

JointVariantSet == {JointVariants[i] : i \in 1..Len(JointVariants)}

Next ==
    \/ update_contact_softness
    \/ narrow_phase
    \/ prepare_solver_bodies
    \/ \E T \in JointVariantSet : prepare_xpbd_joint(T)
    \/ integrate_velocities
    \/ warm_start
    \/ solve_contacts(TRUE)
    \/ integrate_positions
    \/ solve_contacts(FALSE)
    \/ pre_solve_snapshot
    \/ \E T \in JointVariantSet : solve_xpbd_joint(T)
    \/ project_linear_velocity
    \/ project_angular_velocity
    \/ \E T \in JointVariantSet : joint_damping(T)
    \/ solve_restitution
    \/ finalize
    \/ store_contact_impulses
    \/ BeginStep

Spec == Init /\ [][Next]_vars


\* ------------------------------------- a host that retunes between two steps
FrequencyFactors == <<<<1, 2>>, <<1, 1>>, <<3, 2>>>>
MaxDelta == 3

NextFactor(f) ==
    LET i == CHOOSE k \in 1..Len(FrequencyFactors) : FrequencyFactors[k] = f
    IN  FrequencyFactors[(i % Len(FrequencyFactors)) + 1]

BetweenSteps == StepOver /\ ~panicked /\ step < MaxSteps

ChangeSolverConfig ==
    /\ BetweenSteps
    /\ ~changed.solver_config
    /\ cfg' = [cfg EXCEPT !.contact_frequency_factor = NextFactor(@)]
    /\ changed' = [changed EXCEPT !.solver_config = TRUE]
    /\ UNCHANGED <<step, stepIdx, substep, subIdx, ci, substepCount, physicsDt, substepDt,
                   coefficients, lengthUnit, plugin, bodies, solverBodies, dummy,
                   constraints,
                   contactGraph, joints, ran, stepRan, restitutionCalls, panicked, passedCoefficient>>

ChangePhysicsTime ==
    /\ BetweenSteps
    /\ ~changed.physics_time
    /\ physicsDt' = (physicsDt % MaxDelta) + 1
    /\ changed' = [changed EXCEPT !.physics_time = TRUE]
    /\ UNCHANGED <<step, stepIdx, substep, subIdx, ci, substepCount, cfg, substepDt,
                   coefficients, lengthUnit, plugin, bodies, solverBodies, dummy,
                   constraints,
                   contactGraph, joints, ran, stepRan, restitutionCalls, panicked, passedCoefficient>>

ChangeSubstepTime ==
    /\ BetweenSteps
    /\ ~changed.substep_time
    /\ substepDt' = (substepDt % MaxDelta) + 1
    /\ changed' = [changed EXCEPT !.substep_time = TRUE]
    /\ UNCHANGED <<step, stepIdx, substep, subIdx, ci, substepCount, cfg, physicsDt,
                   coefficients, lengthUnit, plugin, bodies, solverBodies, dummy,
                   constraints,
                   contactGraph, joints, ran, stepRan, restitutionCalls, panicked, passedCoefficient>>

InitConfig ==
    \E dt \in 1..MaxDelta, h \in 1..MaxDelta,
       f \in {FrequencyFactors[i] : i \in 1..Len(FrequencyFactors)} :
        InitWith("Static", "Dynamic", 0, 0, 1, 1, 1, 1, dt, h, f)

NextConfig ==
    \/ Next
    \/ ChangeSolverConfig
    \/ ChangePhysicsTime
    \/ ChangeSubstepTime

SpecConfig == InitConfig /\ [][NextConfig]_vars


\* ------------------------------------------------------------- properties
IsPrefix(a, b) == Len(a) <= Len(b) /\ \A i \in 1..Len(a) : a[i] = b[i]

\* the solver phase a system of the SubstepSchedule belongs to
PhaseOf(s) ==
    CASE s.sys = "integrate_velocities" -> "integrate velocities"
      [] s.sys = "warm_start" -> "warm start"
      [] s = Sys("solve_contacts", "true") -> "biased solve"
      [] s.sys = "integrate_positions" -> "integrate positions"
      [] s = Sys("solve_contacts", "false") -> "relaxation"
      [] s.sys \in {"pre_solve_snapshot", "solve_xpbd_joint"} -> "XPBD joint solve"
      [] s.sys \in {"project_linear_velocity", "project_angular_velocity", "joint_damping"}
            -> "XPBD velocity projection"
      [] OTHER -> "other"

\* the phases of a run of systems, a phase of several systems named once
RECURSIVE PhasesOf(_)
PhasesOf(systems) ==
    IF systems = <<>> THEN <<>>
    ELSE LET rest == PhasesOf(Tail(systems))
             phase == PhaseOf(Head(systems))
         IN  IF rest # <<>> /\ Head(rest) = phase THEN rest ELSE <<phase>> \o rest

SubstepFinished == Len(ran) = Len(SubstepSchedule)

\* C1: within a substep the solver phases run in the order integrate velocities,
\* warm start, biased solve, integrate positions, relaxation, XPBD joint solve,
\* XPBD velocity projection, and a finished substep has run all seven: warm start
\* is before the first biased solve and relaxation after position integration.
C1_SubstepPhaseOrder ==
    LET order == << "integrate velocities", "warm start", "biased solve",
                    "integrate positions", "relaxation", "XPBD joint solve",
                    "XPBD velocity projection" >>
    IN  /\ IsPrefix(PhasesOf(ran), order)
        /\ SubstepFinished => PhasesOf(ran) = order

\* a second substep has run to its end, contact impulses having been applied
C1_Witness ==
    /\ SubstepFinished
    /\ substepCount = 2
    /\ stepIdx > 1 /\ subIdx = 0
    /\ \E k \in 1..Len(constraints) : \E i \in 1..Len(constraints[k].points) :
           constraints[k].points[i].normal_part.impulse > 0

RECURSIVE CountOf(_, _)
CountOf(systems, name) ==
    IF systems = <<>> THEN 0
    ELSE (IF Head(systems).sys = name THEN 1 ELSE 0) + CountOf(Tail(systems), name)

StoredThisStep == CountOf(stepRan, "store_contact_impulses") > 0

\* C2: in one step solve_restitution runs once, after all SubstepCount substeps;
\* finalize runs right after it; store_contact_impulses runs right after finalize
\* and is the last solver operation of the step: once it has run no system runs
\* and no constraint impulse changes.
C2_RestitutionFinalizeStore ==
    /\ [](LET n == Len(stepRan)
          IN  /\ CountOf(stepRan, "solve_restitution") <= 1
              /\ \A i \in 1..n :
                    /\ stepRan[i].sys = "solve_restitution" =>
                          /\ i > 1
                          /\ CountOf(SubSeq(stepRan, 1, i), "substep") = substepCount
                          /\ stepRan[i - 1].sys = "substep"
                    /\ stepRan[i].sys = "substep" =>
                          CountOf(SubSeq(stepRan, 1, i), "solve_restitution") = 0
                    /\ stepRan[i].sys = "finalize" =>
                          i > 1 /\ stepRan[i - 1].sys = "solve_restitution"
                    /\ stepRan[i].sys = "store_contact_impulses" =>
                          i > 1 /\ stepRan[i - 1].sys = "finalize" /\ i = n
              /\ (StepOver /\ ~panicked) => StoredThisStep)
    /\ [][StoredThisStep => constraints' = constraints /\ (stepRan' = stepRan \/ stepRan' = <<>>)]_vars

\* a step of two substeps is over, restitution having added to an impulse
C2_Witness ==
    /\ StepOver /\ StoredThisStep
    /\ substepCount = 2
    /\ CountOf(stepRan, "substep") = 2
    /\ \E k \in 1..Len(restitutionCalls) : restitutionCalls[k] > 0


\* the linear and angular velocity of body b, in its components and in its solver
\* body, are the same after the step as before
VelocityKept(b) ==
    /\ bodies'[b].linear_velocity = bodies[b].linear_velocity
    /\ bodies'[b].angular_velocity = bodies[b].angular_velocity
    /\ HasSolverBody(b) =>
          /\ b \in DOMAIN solverBodies'
          /\ solverBodies'[b].body.linear_velocity = solverBodies[b].body.linear_velocity
          /\ solverBodies'[b].body.angular_velocity = solverBodies[b].body.angular_velocity

\* a contact system is about to work on the constraint at ci
AtConstraint ==
    /\ CurrentSystem.sys \in {"warm_start", "solve_contacts", "solve_restitution"}
    /\ ci <= Len(constraints)

\* C3: warm_start, solve_contacts (biased and relaxation) and solve_restitution,
\* working on a constraint with relative_dominance > 0, leave the linear and
\* angular velocity of body1 unchanged; with relative_dominance < 0, those of body2.
C3_DominantBodyUnchanged ==
    [][AtConstraint =>
         /\ constraints[ci].relative_dominance > 0 => VelocityKept(constraints[ci].body1)
         /\ constraints[ci].relative_dominance < 0 => VelocityKept(constraints[ci].body2)]_vars

\* the biased solve has just put an impulse on a constraint between two dynamic
\* bodies of which body1 dominates
C3_Witness ==
    /\ CurrentSystem = Sys("solve_contacts", "true")
    /\ step = 1 /\ substep = 1 /\ ci = 2
    /\ constraints[1].relative_dominance > 0
    /\ IsDynamic(bodies[constraints[1].body1])
    /\ IsDynamic(bodies[constraints[1].body2])
    /\ \E i \in 1..Len(constraints[1].points) :
           constraints[1].points[i].normal_part.impulse > 0

PassSystems ==
    { "warm_start", "solve_contacts", "solve_restitution", "solve_xpbd_joint",
      "project_linear_velocity", "project_angular_velocity", "joint_damping" }

ManifoldOf(c) == contactGraph[<<c.collider1, c.collider2>>].manifolds[c.manifold_index]

\* C5: once store_contact_impulses has run, every point of every constraint has its
\* accumulated normal impulse and its accumulated tangent impulse, and nothing
\* else, in the manifold point of the same index of its pair and manifold.
C5_StoredImpulsesExact ==
    StoredThisStep =>
        \A k \in 1..Len(constraints) :
            LET c == constraints[k]
            IN  /\ <<c.collider1, c.collider2>> \in DOMAIN contactGraph
                /\ c.manifold_index \in
                       1..Len(contactGraph[<<c.collider1, c.collider2>>].manifolds)
                /\ Len(c.points) <= Len(ManifoldOf(c).points)
                /\ \A i \in 1..Len(c.points) :
                       /\ ManifoldOf(c).points[i].normal_impulse =
                              c.points[i].normal_part.impulse
                       /\ ManifoldOf(c).points[i].tangent_impulse =
                              (IF c.points[i].tangent_part.present
                               THEN c.points[i].tangent_part.impulse ELSE 0)

\* the second step has stored a normal and a tangent impulse that are not zero,
\* and an impulse restitution added to
C5_Witness ==
    /\ StoredThisStep /\ step = 2
    /\ \E k \in 1..Len(constraints) : \E i \in 1..Len(constraints[k].points) :
           /\ ManifoldOf(constraints[k]).points[i].normal_impulse > 0
           /\ ManifoldOf(constraints[k]).points[i].tangent_impulse # 0
    /\ \E k \in 1..Len(restitutionCalls) : restitutionCalls[k] > 0


\* the points of all constraints, as <<constraint, point>> index pairs
ConstraintPoints ==
    UNION {{<<k, i>> : i \in 1..Len(constraints[k].points)} : k \in 1..Len(constraints)}

\* the system that finished last in the running substep
LastRan == IF ran = <<>> THEN NoSystem ELSE ran[Len(ran)]

\* C6: the accumulated normal impulse of every point of every constraint is at
\* least 0, in every substep of every step: after each biased solve, after each
\* relaxation pass and after restitution, and at every constraint in between.
C6_NormalImpulseNonNegative ==
    \A q \in ConstraintPoints : constraints[q[1]].points[q[2]].normal_part.impulse >= 0

\* a solve pass has taken an impulse that was positive down to the bound 0, next
\* to a point whose impulse stays positive
C6_Witness ==
    /\ LastRan.sys = "solve_contacts"
    /\ ci = 1
    /\ \E q \in ConstraintPoints :
           /\ constraints[q[1]].points[q[2]].normal_part.impulse = 0
           /\ ManifoldOf(constraints[q[1]]).points[q[2]].normal_impulse > 0
    /\ \E q \in ConstraintPoints : constraints[q[1]].points[q[2]].normal_part.impulse > 0

\* C7: when a biased solve pass or a relaxation pass has finished, the magnitude of
\* the accumulated tangent impulse of every contact point is at most the friction
\* coefficient times the accumulated normal impulse of that point.
C7_CoulombCone ==
    (LastRan.sys = "solve_contacts" /\ ci = 1) =>
        \A q \in ConstraintPoints :
            LET c == constraints[q[1]]
                p == c.points[q[2]]
            IN  Abs(p.tangent_part.impulse) <= c.friction * p.normal_part.impulse

\* a relaxation pass has finished with a tangent impulse on the cone's boundary and
\* a tangent impulse strictly inside the cone
C7_Witness ==
    /\ LastRan = Sys("solve_contacts", "false")
    /\ ci = 1
    /\ \E q \in ConstraintPoints :
           LET c == constraints[q[1]]
               p == c.points[q[2]]
           IN  /\ p.tangent_part.impulse # 0
               /\ Abs(p.tangent_part.impulse) = c.friction * p.normal_part.impulse
    /\ \E q \in ConstraintPoints :
           LET c == constraints[q[1]]
               p == c.points[q[2]]
           IN  /\ p.tangent_part.impulse # 0
               /\ Abs(p.tangent_part.impulse) < c.friction * p.normal_part.impulse


\* nothing has changed since update_contact_softness ran last
SoftnessCurrent ==
    ~changed.solver_config /\ ~changed.physics_time /\ ~changed.substep_time

\* min(1 / (2 dt), 0.25 / h)
FrequencyCap == RMin(RDiv(R(1), R(2 * physicsDt)), RDiv(<<1, 4>>, R(substepDt)))

\* C8, as the specification states it: the contact frequency of the dynamic
\* softness coefficients is at most min(1 / (2 dt), 0.25 / h).
C8_FrequencyAtMostCap ==
    SoftnessCurrent => RLeq(coefficients.dynamic.hz, FrequencyCap)

\* C8, amended: the contact frequency of the dynamic softness coefficients is
\* contact_frequency_factor times min(1 / (2 dt), 0.25 / h): at most the minimum
\* when the factor is at most 1, and above it when the factor is greater than 1.
C8_FrequencyIsFactorTimesCap ==
    SoftnessCurrent =>
        /\ coefficients.dynamic.hz = RMul(cfg.contact_frequency_factor, FrequencyCap)
        /\ RLeq(cfg.contact_frequency_factor, R(1)) =>
               RLeq(coefficients.dynamic.hz, FrequencyCap)
        /\ ~RLeq(cfg.contact_frequency_factor, R(1)) =>
               ~RLeq(coefficients.dynamic.hz, FrequencyCap)

\* the second step has recomputed the coefficients under the default factor 1.5,
\* the substep time being the smaller of the two limits
C8_Witness ==
    /\ step = 2 /\ stepIdx > 1
    /\ SoftnessCurrent
    /\ cfg.contact_frequency_factor = <<3, 2>>
    /\ FrequencyCap = RDiv(<<1, 4>>, R(substepDt))
    /\ FrequencyCap # RDiv(R(1), R(2 * physicsDt))
    /\ ~RLeq(coefficients.dynamic.hz, FrequencyCap)

\* C9: update_contact_softness recomputes the coefficients when SolverConfig, the
\* physics time or the substep time has changed and leaves them when none has; no
\* other system writes them; and in every step it runs before the narrow phase
\* and before the substep loop.
C9_SoftnessRecomputedWhenChanged ==
    /\ [][coefficients' =
            IF CurrentSystem.sys = "update_contact_softness"
               /\ (changed.solver_config \/ changed.physics_time \/ changed.substep_time)
            THEN ContactSoftness(cfg, physicsDt, substepDt)
            ELSE coefficients]_vars
    /\ [](\A i \in 1..Len(stepRan) :
            stepRan[i].sys \in {"narrow_phase", "substep"} =>
                \E j \in 1..(i - 1) : stepRan[j].sys = "update_contact_softness")

\* the second step has recomputed the coefficients after a change and has gone on
\* into the narrow phase and the substep loop
C9_Witness ==
    /\ step = 2
    /\ Len(stepRan) >= 2
    /\ stepRan[1] = Sys("update_contact_softness", "recomputed")
    /\ CountOf(stepRan, "narrow_phase") = 1
    /\ CountOf(stepRan, "substep") = 1
    /\ coefficients = ContactSoftness(cfg, physicsDt, substepDt)
    /\ coefficients # DefaultContactSoftness

\* solve_restitution has worked on the constraints 1..Len(restitutionCalls)
RestitutionDone == 1..Len(restitutionCalls)

\* C10, as the specification states it: apply_restitution is called
\* restitution_iterations times for a constraint with more than one contact point
\* and once for a constraint with one contact point.
C10_CallsByPointCount ==
    \A k \in RestitutionDone :
        restitutionCalls[k] =
            IF Len(constraints[k].points) > 1 THEN cfg.restitution_iterations ELSE 1

\* C10, amended: for a constraint whose restitution coefficient is not 0,
\* apply_restitution is called restitution_iterations times when it has more than
\* one contact point and once when it has one; for a constraint whose restitution
\* coefficient is 0 it is not called.
C10_CallsByPointCountUnlessSkipped ==
    \A k \in RestitutionDone :
        /\ k <= Len(constraints)
        /\ restitutionCalls[k] =
              IF constraints[k].restitution = 0 THEN 0
              ELSE IF Len(constraints[k].points) > 1 THEN cfg.restitution_iterations
              ELSE 1

\* solve_restitution has finished with restitution_iterations = 0: no call for the
\* constraint of two points, one call for a constraint of one point, and no call
\* for the constraint of restitution 0
C10_Witness ==
    /\ cfg.restitution_iterations = 0
    /\ Len(restitutionCalls) = Len(constraints)
    /\ \E k \in RestitutionDone :
           /\ Len(constraints[k].points) > 1 /\ constraints[k].restitution # 0
           /\ restitutionCalls[k] = 0
    /\ \E k \in RestitutionDone :
           /\ Len(constraints[k].points) = 1 /\ constraints[k].restitution # 0
           /\ restitutionCalls[k] = 1
    /\ \E k \in RestitutionDone :
           constraints[k].restitution = 0 /\ restitutionCalls[k] = 0


\* ------------------- contacts under every restitution and warm start setting
RestitutionCoefficients == {-1, 0, 1}
WarmStartCoefficients == {-1, 0, 1, 2}

InitContacts ==
    \E kind1 \in {"Static", "Dynamic"}, dom1 \in {0, 1},
       restitution1 \in RestitutionCoefficients,
       iterations \in 0..MaxRestitutionIterations,
       warm \in WarmStartCoefficients, count \in 1..MaxSubsteps :
        InitWith(kind1, "Dynamic", dom1, 0, restitution1, iterations, warm, count,
                 count, 1, <<3, 2>>)

SpecContacts == InitContacts /\ [][Next]_vars

\* solve_restitution is about to work on the constraint at ci
AtRestitution == CurrentSystem.sys = "solve_restitution" /\ ci <= Len(constraints)

\* the step leaves the constraint at ci and the velocities of its bodies alone,
\* and apply_restitution is not called
RestitutionNotApplied ==
    /\ constraints'[ci] = constraints[ci]
    /\ VelocityKept(constraints[ci].body1)
    /\ VelocityKept(constraints[ci].body2)
    /\ restitutionCalls' = Append(restitutionCalls, 0)

\* C11, as the specification states it: for a constraint whose restitution is not
\* > 0, solve_restitution does not apply restitution: the constraint's impulses and
\* the velocities of both bodies are unchanged.
C11_NotAppliedUnlessPositive ==
    [][(AtRestitution /\ ~(constraints[ci].restitution > 0)) => RestitutionNotApplied]_vars

\* C11, amended: solve_restitution passes over a constraint exactly when its
\* restitution equals 0, leaving its impulses and the velocities of both bodies
\* unchanged; for a constraint whose restitution is below 0, as for one above 0,
\* it calls apply_restitution, restitution_iterations times when the constraint
\* has more than one point and once when it has one.
C11_NotAppliedOnlyWhenZero ==
    [][AtRestitution =>
         /\ constraints[ci].restitution = 0 => RestitutionNotApplied
         /\ constraints[ci].restitution # 0 =>
               restitutionCalls' =
                   Append(restitutionCalls,
                          IF Len(constraints[ci].points) > 1
                          THEN cfg.restitution_iterations ELSE 1)]_vars

\* solve_restitution has finished: apply_restitution was called on a constraint of
\* restitution -1, a point of which holds less impulse than the step began with,
\* and was not called on the constraint of restitution 0
C11_Witness ==
    /\ Len(restitutionCalls) = Len(constraints)
    /\ Len(constraints) > 0
    /\ \E k \in RestitutionDone :
           /\ constraints[k].restitution < 0
           /\ restitutionCalls[k] > 0
           /\ \E i \in 1..Len(constraints[k].points) :
                  constraints[k].points[i].normal_part.impulse <
                      ManifoldOf(constraints[k]).points[i].normal_impulse
    /\ \E k \in RestitutionDone :
           constraints[k].restitution = 0 /\ restitutionCalls[k] = 0


\* C13, as the specification states it: the coefficient warm_start hands to the
\* constraint's warm start lies in [0, 1], whatever warm_start_coefficient is.
C13_PassedCoefficientInUnitRange ==
    passedCoefficient # <<>> => (0 <= passedCoefficient[1] /\ passedCoefficient[1] <= 1)

\* C13, amended: the coefficient warm_start hands to the constraint's warm start
\* is SolverConfig.warm_start_coefficient as it stands, so it lies in [0, 1] exactly
\* when the configured value does.
C13_PassedCoefficientIsConfigured ==
    passedCoefficient # <<>> =>
        /\ passedCoefficient[1] = cfg.warm_start_coefficient
        /\ (0 <= passedCoefficient[1] /\ passedCoefficient[1] <= 1)
               <=> cfg.warm_start_coefficient \in {0, 1}

\* warm_start has finished in the second step, with the coefficient 2 and with a
\* persisted impulse to apply
C13_Witness ==
    /\ step = 2
    /\ LastRan.sys = "warm_start" /\ ci = 1
    /\ cfg.warm_start_coefficient = 2
    /\ passedCoefficient = <<2>>
    /\ \E q \in ConstraintPoints :
           constraints[q[1]].points[q[2]].normal_part.impulse > 0


\* joint_damping::<T> is about to run, and joint k is the one joint of variant T
\* that touches either of its two bodies
DampingAt(k) ==
    /\ CurrentSystem = Sys("joint_damping", joints[k].variant)
    /\ \A j \in 1..Len(joints) :
           (j # k /\ joints[j].variant = joints[k].variant) =>
               {joints[j].entities[1], joints[j].entities[2]}
                   \cap {joints[k].entities[1], joints[k].entities[2]} = {}

\* min(damping * h, 1)
BlendFactor(damping) == RMin(RMul(damping, R(substepDt)), R(1))

\* both bodies of joint k are dynamic
BothDynamic(k) ==
    IsDynamic(bodies[joints[k].entities[1]]) /\ IsDynamic(bodies[joints[k].entities[2]])

\* the body of joint k with the strictly higher dominance, as a set
Dominant(k) ==
    {b \in {joints[k].entities[1], joints[k].entities[2]} :
        \A o \in {joints[k].entities[1], joints[k].entities[2]} \ {b} :
            bodies[b].dominance > bodies[o].dominance}

\* C12, as the specification states it: joint_damping changes neither the linear
\* nor the angular velocity of the body of strictly higher dominance of a joint
\* between two dynamic bodies.
C12_DominantBodyUndamped ==
    [][\A k \in 1..Len(joints) : (DampingAt(k) /\ BothDynamic(k)) =>
          \A b \in Dominant(k) :
              /\ bodies'[b].linear_velocity = bodies[b].linear_velocity
              /\ bodies'[b].angular_velocity = bodies[b].angular_velocity]_vars

\* C12, amended: joint_damping does not change the linear velocity of the body of
\* strictly higher dominance of a joint between two dynamic bodies; its angular
\* velocity is damped like that of any dynamic body, by
\* (w2 - w1) * min(damping_angular * h, 1) towards the other body's.
C12_DominantBodyUndampedLinearly ==
    [][\A k \in 1..Len(joints) : (DampingAt(k) /\ BothDynamic(k)) =>
          LET e1 == joints[k].entities[1]
              e2 == joints[k].entities[2]
              delta_omega == RMul(RSub(bodies[e2].angular_velocity,
                                       bodies[e1].angular_velocity),
                                  BlendFactor(joints[k].damping_angular))
          IN  \A b \in Dominant(k) :
                  /\ bodies'[b].linear_velocity = bodies[b].linear_velocity
                  /\ bodies'[b].angular_velocity =
                         IF b = e1 THEN RAdd(bodies[b].angular_velocity, delta_omega)
                         ELSE RSub(bodies[b].angular_velocity, delta_omega)]_vars

\* the first joint_damping::<FixedJoint> has run on two dynamic bodies of which
\* body 2 dominates: the angular velocity of body 2 is no longer the 0 it had, and
\* the linear velocity of body 3 is no longer the one it had
C12_Witness ==
    /\ step = 1 /\ substep = 1
    /\ LastRan = Sys("joint_damping", "FixedJoint")
    /\ IsDynamic(bodies[2]) /\ IsDynamic(bodies[3])
    /\ bodies[2].dominance > bodies[3].dominance
    /\ bodies[2].angular_velocity # R(0)
    /\ bodies[2].linear_velocity = RVec(<<1, -3>>)
    /\ bodies[3].linear_velocity # RVec(<<-2, 0>>)


\* -------------------------------------------------- SolverPlugin::build
\* build: the PhysicsLengthUnit resource it leaves, from the one it finds
LengthUnitKeptIfPresent(existing, length_unit) ==
    IF existing = <<>> THEN <<length_unit>> ELSE existing

LengthUnitAfterBuild(existing, length_unit) ==
    IF existing = <<>> \/ existing[1] = 1 THEN <<length_unit>> ELSE existing

\* SolverPlugin::build, as far as the resources go: SolverConfig,
\* ContactSoftnessCoefficients and ContactConstraints are initialised when absent
build ==
    /\ ~plugin.built
    /\ lengthUnit' = LengthUnitAfterBuild(lengthUnit, plugin.length_unit)
    /\ plugin' = [plugin EXCEPT !.built = TRUE, !.found = lengthUnit]
    /\ UNCHANGED <<step, stepIdx, substep, subIdx, ci, substepCount, cfg, physicsDt,
                   substepDt, changed, coefficients, bodies, solverBodies, dummy,
                   constraints, contactGraph, joints, ran, stepRan, restitutionCalls,
                   panicked, passedCoefficient>>

\* the length units of the plugin and of the resource an app may hold already
LengthUnits == {1, 2, 3}

InitBuild ==
    /\ InitEntities("Static", "Dynamic", 0, 0, 1, 1, 1, 1, 1, 1, <<3, 2>>)
    /\ lengthUnit \in {<<>>} \cup {<<u>> : u \in LengthUnits}
    /\ \E u \in LengthUnits : plugin = [length_unit |-> u, built |-> FALSE, found |-> <<>>]

NextBuild ==
    \/ build
    \/ Next

SpecBuild == InitBuild /\ [][NextBuild]_vars

RECURSIVE XpbdSystemsOf(_)
XpbdSystemsOf(systems) ==
    IF systems = <<>> THEN <<>>
    ELSE (IF PhaseOf(Head(systems)) \in {"XPBD joint solve", "XPBD velocity projection"}
          THEN <<Head(systems)>> ELSE <<>>) \o XpbdSystemsOf(Tail(systems))

\* C15: in every substep the pre-solve snapshot of the solver bodies' deltas comes
\* before any joint solve; the joints are solved by variant in the order FixedJoint,
\* RevoluteJoint, SphericalJoint, PrismaticJoint, DistanceJoint; then comes the
\* linear velocity projection, then the angular one, and only then joint damping,
\* in the same order of variants.
C15_XpbdOrder ==
    LET order == << Sys("pre_solve_snapshot", ""),
                    Sys("solve_xpbd_joint", "FixedJoint"),
                    Sys("solve_xpbd_joint", "RevoluteJoint"),
                    Sys("solve_xpbd_joint", "SphericalJoint"),
                    Sys("solve_xpbd_joint", "PrismaticJoint"),
                    Sys("solve_xpbd_joint", "DistanceJoint"),
                    Sys("project_linear_velocity", ""),
                    Sys("project_angular_velocity", ""),
                    Sys("joint_damping", "FixedJoint"),
                    Sys("joint_damping", "RevoluteJoint"),
                    Sys("joint_damping", "SphericalJoint"),
                    Sys("joint_damping", "PrismaticJoint"),
                    Sys("joint_damping", "DistanceJoint") >>
    IN  /\ IsPrefix(XpbdSystemsOf(ran), order)
        /\ SubstepFinished => XpbdSystemsOf(ran) = order

\* the second substep of a step is over: the snapshot was taken, both joints were
\* solved with a correction, and the damping changed the velocity of body 2
C15_Witness ==
    /\ SubstepFinished /\ subIdx = 0
    /\ substepCount = 2
    /\ \A b \in DOMAIN solverBodies :
           bodies[b].pre_solve_delta_position # ZeroVec
    /\ \A k \in 1..Len(joints) : joints[k].lagrange # ZeroVec
    /\ bodies[2].linear_velocity # RVec(<<1, -3>>)


\* ------------- an app that edits the ContactGraph while the solver is at work
\* the constraints exist, the impulses are not stored yet, no substep is running
BeforeStore ==
    /\ ~panicked
    /\ subIdx = 0
    /\ CountOf(stepRan, "narrow_phase") = 1
    /\ ~StoredThisStep

\* another system removes a contact pair from the graph
RemovePair ==
    /\ BeforeStore
    /\ \E key \in DOMAIN contactGraph :
           contactGraph' = [x \in DOMAIN contactGraph \ {key} |-> contactGraph[x]]
    /\ UNCHANGED <<step, stepIdx, substep, subIdx, ci, substepCount, cfg, physicsDt,
                   substepDt, changed, coefficients, lengthUnit, plugin, bodies,
                   solverBodies, dummy, constraints, joints, ran, stepRan,
                   restitutionCalls, panicked, passedCoefficient>>

\* another system removes the last manifold of a contact pair
RemoveManifold ==
    /\ BeforeStore
    /\ \E key \in DOMAIN contactGraph :
           /\ Len(contactGraph[key].manifolds) > 0
           /\ contactGraph' =
                  [contactGraph EXCEPT ![key].manifolds = SubSeq(@, 1, Len(@) - 1)]
    /\ UNCHANGED <<step, stepIdx, substep, subIdx, ci, substepCount, cfg, physicsDt,
                   substepDt, changed, coefficients, lengthUnit, plugin, bodies,
                   solverBodies, dummy, constraints, joints, ran, stepRan,
                   restitutionCalls, panicked, passedCoefficient>>

InitGraph ==
    \E kind1 \in {"Static", "Dynamic"}, restitution1 \in {0, 1} :
        InitWith(kind1, "Dynamic", 0, 0, restitution1, 1, 1, 1, 1, 1, <<3, 2>>)

NextGraph ==
    \/ Next
    \/ RemovePair
    \/ RemoveManifold

SpecGraph == InitGraph /\ [][NextGraph]_vars

\* the pair and the manifold of constraint c are in the contact graph
Resolves(c) ==
    /\ <<c.collider1, c.collider2>> \in DOMAIN contactGraph
    /\ c.manifold_index \in 1..Len(contactGraph[<<c.collider1, c.collider2>>].manifolds)

\* a step of store_contact_impulses: it ends in a panic or as the last system run
StoreStep ==
    /\ CurrentSystem.sys = "store_contact_impulses"
    /\ panicked' \/ stepRan' # stepRan

\* C16: store_contact_impulses panics when the pair of a constraint, or its
\* manifold_index within the pair, does not resolve in the contact graph, and only
\* then; it does not run to its end over such a constraint, and whatever it has
\* written by then is the impulse of a constraint point in the manifold point of
\* that constraint's own pair, manifold and index.
C16_UnresolvedConstraintPanics ==
    [][StoreStep =>
         /\ panicked' <=> \E k \in 1..Len(constraints) : ~Resolves(constraints[k])
         /\ panicked' => stepRan' = stepRan
         /\ DOMAIN contactGraph' = DOMAIN contactGraph
         /\ \A key \in DOMAIN contactGraph :
              /\ Len(contactGraph'[key].manifolds) = Len(contactGraph[key].manifolds)
              /\ \A m \in 1..Len(contactGraph[key].manifolds) :
                   LET before == contactGraph[key].manifolds[m].points
                       after == contactGraph'[key].manifolds[m].points
                   IN  /\ Len(after) = Len(before)
                       /\ \A i \in 1..Len(before) :
                            \/ after[i] = before[i]
                            \/ \E k \in 1..Len(constraints) :
                                 /\ <<constraints[k].collider1, constraints[k].collider2>> = key
                                 /\ constraints[k].manifold_index = m
                                 /\ i <= Len(constraints[k].points)
                                 /\ after[i].normal_impulse =
                                        constraints[k].points[i].normal_part.impulse
                                 /\ after[i].tangent_impulse =
                                        (IF constraints[k].points[i].tangent_part.present
                                         THEN constraints[k].points[i].tangent_part.impulse
                                         ELSE 0)]_vars

\* store_contact_impulses has panicked at a constraint whose manifold is gone from
\* its pair, after it had stored the impulses of the first constraint
C16_Witness ==
    /\ panicked
    /\ step = 1
    /\ \E k \in 1..Len(constraints) :
           /\ <<constraints[k].collider1, constraints[k].collider2>> \in DOMAIN contactGraph
           /\ ~Resolves(constraints[k])
    /\ Resolves(constraints[1])
    /\ ManifoldOf(constraints[1]).points[1].normal_impulse > 0
    /\ ManifoldOf(constraints[1]).points[1].normal_impulse =
           constraints[1].points[1].normal_part.impulse


\* the velocity of body2 of joint k relative to body1, in the bodies bs
RelativeLinear(bs, k) ==
    RVSub(bs[joints[k].entities[2]].linear_velocity, bs[joints[k].entities[1]].linear_velocity)

RelativeAngular(bs, k) ==
    RSub(bs[joints[k].entities[2]].angular_velocity, bs[joints[k].entities[1]].angular_velocity)

EqualDominance(k) ==
    bodies[joints[k].entities[1]].dominance = bodies[joints[k].entities[2]].dominance

DampingBodies(kind1, kind4, inv_mass4) ==
    InitialBodies(kind1, "Dynamic", 0, 0)
    @@ (4 :> [RigidBodyOf(kind4, <<0, -2>>, <<2, 1>>, 2, 0) EXCEPT !.inv_mass = inv_mass4])

DampingJoints ==
    <<JointOf("DistanceJoint", 1, 4, <<0, -2>>, <<1, 2>>, R(1))>> \o InitialJoints

InitDamping ==
    \E kind1 \in Kinds, kind4 \in {"Dynamic", "Kinematic"}, inv_mass4 \in {0, 1},
       restitution1 \in {0, 1}, count \in 1..MaxSubsteps :
        /\ InitResources(restitution1, 1, 1, count, count, 1, <<3, 2>>)
        /\ bodies = DampingBodies(kind1, kind4, inv_mass4)
        /\ joints = DampingJoints
        /\ lengthUnit = <<DefaultLengthUnit>>
        /\ plugin = [length_unit |-> DefaultLengthUnit, built |-> TRUE, found |-> <<>>]

SpecDamping == InitDamping /\ [][Next]_vars

\* the inverse mass joint_damping takes for a body: 0 unless it is dynamic
InverseMassOf(b) == IF IsDynamic(bodies[b]) THEN R(bodies[b].inv_mass) ELSE R(0)

\* joint_damping::<T> is about to run, T the variant of joint k, and no other
\* joint of the variant holds a dynamic body of joint k
DampingAlone(k) ==
    /\ CurrentSystem = Sys("joint_damping", joints[k].variant)
    /\ \A j \in 1..Len(joints) :
           (j # k /\ joints[j].variant = joints[k].variant) =>
               \A b \in {joints[j].entities[1], joints[j].entities[2]}
                          \cap {joints[k].entities[1], joints[k].entities[2]} :
                   ~IsDynamic(bodies[b])

\* w1 + w2 <= epsilon for joint k
SkippedAt(k) ==
    RLeq(RAdd(InverseMassOf(joints[k].entities[1]), InverseMassOf(joints[k].entities[2])),
         EPSILON)

LinearKept(b) == bodies'[b].linear_velocity = bodies[b].linear_velocity

AngularKept(b) == bodies'[b].angular_velocity = bodies[b].angular_velocity

\* a joint of near-zero mass is before joint j among the joints of its variant
AfterSkipped(j) ==
    \E k \in 1..(j - 1) : joints[k].variant = joints[j].variant /\ SkippedAt(k)

\* joint j, met after a skipped one, is worked on: the relative linear velocity
\* of its bodies, one of them dynamic and pushed, is blended
StillProcessed(j) ==
    (/\ DampingAlone(j) /\ AfterSkipped(j) /\ ~SkippedAt(j)
     /\ ~BothDynamic(j) \/ EqualDominance(j))
    => RelativeLinear(bodies', j) =
           RVScale(RSub(R(1), BlendFactor(joints[j].damping_linear)),
                   RelativeLinear(bodies, j))

\* C18, as the specification states it: when w1 + w2 <= epsilon, joint_damping
\* changes neither the linear nor the angular velocity of either body of the
\* joint, and the joints after it are still processed.
C18_SkippedJointUntouched ==
    [][\A k \in 1..Len(joints) :
          /\ (DampingAlone(k) /\ SkippedAt(k)) =>
                 \A b \in {joints[k].entities[1], joints[k].entities[2]} :
                     LinearKept(b) /\ AngularKept(b)
          /\ StillProcessed(k)]_vars

\* C18, amended: when w1 + w2 <= epsilon, joint_damping changes the linear
\* velocity of neither body of the joint and the angular velocity of no body
\* that is not dynamic; a dynamic body of the joint has had its angular velocity
\* moved by delta_omega = (w2 - w1) * min(damping_angular * h, 1), added for
\* body1 and subtracted for body2; the joints after it are still processed.
C18_SkippedJointKeepsLinearOnly ==
    [][\A k \in 1..Len(joints) :
          /\ (DampingAlone(k) /\ SkippedAt(k)) =>
                 LET e1 == joints[k].entities[1]
                     e2 == joints[k].entities[2]
                     delta_omega == RMul(RelativeAngular(bodies, k),
                                         BlendFactor(joints[k].damping_angular))
                 IN  /\ LinearKept(e1) /\ LinearKept(e2)
                     /\ IF IsDynamic(bodies[e1])
                        THEN bodies'[e1].angular_velocity =
                                 RAdd(bodies[e1].angular_velocity, delta_omega)
                        ELSE AngularKept(e1)
                     /\ IF IsDynamic(bodies[e2])
                        THEN bodies'[e2].angular_velocity =
                                 RSub(bodies[e2].angular_velocity, delta_omega)
                        ELSE AngularKept(e2)
          /\ StillProcessed(k)]_vars

\* joint_damping::<DistanceJoint> has run over the joint of the kinematic body 1
\* and the dynamic body 4 of inverse mass 0, then over the joint of bodies 1 and
\* 2: body 4 has its linear velocity and the angular velocity of body 1, which
\* damping_angular * h = 1 gave it, and body 2 has been slowed towards body 1
C18_Witness ==
    /\ SubstepFinished
    /\ LastRan = Sys("joint_damping", "DistanceJoint")
    /\ 4 \in DOMAIN bodies
    /\ bodies[1].rb = "Kinematic"
    /\ IsDynamic(bodies[4]) /\ bodies[4].inv_mass = 0
    /\ bodies[4].linear_velocity = RVec(<<2, 1>>)
    /\ bodies[4].angular_velocity = bodies[1].angular_velocity
    /\ bodies[4].angular_velocity # R(2)
    /\ bodies[2].linear_velocity # bodies[1].linear_velocity


\* ------------------------------------------------ bodies without SolverBody
\* the scenario with body 2 static as well: a static body has no SolverBody, and
\* a constraint of the pair of bodies 1 and 2 then meets both dummies
StaticBodies(kind1, kind2, kind3, dom1) ==
    IF kind2 = "Dynamic" THEN InitialBodies(kind1, kind3, dom1, 0)
    ELSE [InitialBodies(kind1, kind3, dom1, 0) EXCEPT
              ![2] = RigidBodyOf(kind2, <<0, 2>>, ZeroVec, 0, 0)]

InitStatic ==
    \E kind1 \in {"Static", "Dynamic"}, kind2 \in {"Static", "Dynamic"},
       kind3 \in Kinds, dom1 \in {0, 1}, restitution1 \in {0, 1},
       count \in 1..MaxSubsteps :
        /\ InitResources(restitution1, 1, 1, count, count, 1, <<3, 2>>)
        /\ bodies = StaticBodies(kind1, kind2, kind3, dom1)
        /\ joints = InitialJoints
        /\ lengthUnit = <<DefaultLengthUnit>>
        /\ plugin = [length_unit |-> DefaultLengthUnit, built |-> TRUE, found |-> <<>>]

SpecStatic == InitStatic /\ [][Next]_vars

\* warm_start, solve_contacts or solve_restitution is about to work on the
\* constraint at ci
AtContactPass ==
    /\ CurrentSystem.sys \in {"warm_start", "solve_contacts", "solve_restitution"}
    /\ ci <= Len(constraints)

\* neither body of constraint c has a SolverBody
BothLackSolverBody(c) ==
    c.body1 \notin DOMAIN solverBodies /\ c.body2 \notin DOMAIN solverBodies

\* C19: the two dummy solver bodies of warm_start, solve_contacts and
\* solve_restitution are in the default state, zero velocities and zero deltas,
\* after every constraint of the pass; a constraint changes the solver bodies of
\* its own two bodies only, and none when neither of its bodies has one.
C19_DummyBodiesStayDefault ==
    /\ [](dummy = <<DefaultSolverBody, DefaultSolverBody>>)
    /\ [][AtContactPass =>
            /\ \A b \in DOMAIN solverBodies :
                   b \notin {constraints[ci].body1, constraints[ci].body2} =>
                       solverBodies'[b] = solverBodies[b]
            /\ BothLackSolverBody(constraints[ci]) => solverBodies' = solverBodies
            /\ DOMAIN solverBodies' = DOMAIN solverBodies]_vars

\* the biased solve has worked on the constraint of the static bodies 1 and 2,
\* both on the dummies, and given its first point a normal impulse, and is at a
\* later constraint with a body of its own
C19_Witness ==
    /\ CurrentSystem = Sys("solve_contacts", "true")
    /\ ci > 1 /\ ci <= Len(constraints)
    /\ BothLackSolverBody(constraints[1])
    /\ constraints[1].points[1].normal_part.impulse > 0
    /\ ~BothLackSolverBody(constraints[ci])
    /\ dummy = <<DefaultSolverBody, DefaultSolverBody>>

=============================================================================
